---- MODULE Spec2Model ----
(***************************************************************************)
(* Model of inference_server.py: a Flask application that loads a Keras    *)
(* model, a preprocessing config and an optional model card at import      *)
(* time (create_app / load_artifacts) and then serves /health, /summary    *)
(* and /inference.                                                         *)
(*                                                                         *)
(* Abstractions:                                                           *)
(*  - a request payload is a sequence of bytes; an image file is the byte  *)
(*    Magic followed by one pixel value (a uniformly coloured image), any  *)
(*    other non-empty payload is not decodable by PIL;                     *)
(*  - probabilities are kept in percent (0..100), so 0.5 is Half == 50;    *)
(*  - a Keras model is its input shape and an affine score on the scaled   *)
(*    pixel value, clamped to 0..100;                                      *)
(*  - JSON numbers are integers; JSON arrays hold scalars.                 *)
(***************************************************************************)
EXTENDS Integers, Sequences, FiniteSets, TLC

VARIABLES fs, phase, startErr, config, pc, raw, lastResp, seen

vars == <<fs, phase, startErr, config, pc, raw, lastResp, seen>>

(* ---------------- bounds ---------------- *)
MaxPx == 1
NumWorkers == 2

Workers == 1..NumWorkers

(* ---------------- JSON values ---------------- *)
\* scalar: [t, n, s];  value: scalar plus the sequence "a" of the scalars it
\* iterates over (array elements, or the characters of a string).
SNum(n) == [t |-> "num", n |-> n, s |-> ""]
SStr(s) == [t |-> "str", n |-> 0, s |-> s]
SNull == [t |-> "null", n |-> 0, s |-> ""]

Lift(sc) == [t |-> sc.t, n |-> sc.n, s |-> sc.s, a |-> <<>>]
VNum(n) == Lift(SNum(n))
VNull == Lift(SNull)
VStr(s, chars) == [t |-> "str", n |-> 0, s |-> s, a |-> chars]
VArr(elems) == [t |-> "arr", n |-> 0, s |-> "", a |-> elems]

EmptyObj == [k \in {} |-> VNull]
Obj1(k, v) == [x \in {k} |-> v]
Obj2(k1, v1, k2, v2) == [x \in {k1, k2} |-> IF x = k1 THEN v1 ELSE v2]

Has(obj, k) == k \in DOMAIN obj
Get(obj, k, default) == IF Has(obj, k) THEN obj[k] ELSE default
Text(s) == VStr(s, <<>>)

(* ---------------- request payloads ---------------- *)
\* An image file: the header byte 1 and one pixel value.
ImageBytes(px) == <<1, px>>
Payloads == {<<>>, <<0>>, <<1>>} \cup {ImageBytes(px) : px \in 0..MaxPx}

NoField == <<2>>
\* a raw body without the multipart field, or a multipart upload of the field
Requests == {[image |-> NoField, data |-> p] : p \in Payloads}
            \cup {[image |-> p, data |-> <<>>] : p \in Payloads}

(* ---------------- artifact files ---------------- *)
MFile(st, side, gain) == [st |-> st, inW |-> side, inH |-> side, gain |-> gain]
ModelFiles == {MFile("absent", 0, 0), MFile("corrupt", 0, 0),
               MFile("ok", 2, 50), MFile("ok", 3, 50)}

JFile(st, obj) == [st |-> st, obj |-> obj]
ImgSizeVals == {VArr(<<SNum(2), SNum(2)>>), VArr(<<SNum(0), SNum(2)>>),
                VArr(<<SNum(2)>>), VArr(<<SNum(2), SNum(2), SNum(2)>>),
                VNull, VStr("ab", <<SStr("a"), SStr("b")>>)}
ScaleVals == {VNum(1), VNum(2), VNum(-1), Text("x"), VNull}
PrepObjs == {EmptyObj}
            \cup {Obj1("img_size", v) : v \in ImgSizeVals}
            \cup {Obj1("scale", v) : v \in ScaleVals}
            \cup {Obj2("img_size", v, "scale", w) : v \in ImgSizeVals, w \in ScaleVals}
PrepFiles == {JFile("absent", EmptyObj), JFile("malformed", EmptyObj),
              JFile("nonobj", EmptyObj)}
             \cup {JFile("obj", o) : o \in PrepObjs}
CardObjs == {Obj2("best_model_name", Text("VGG16"), "test_auc", VNum(9))}
CardFiles == {JFile("absent", EmptyObj), JFile("malformed", EmptyObj)}
             \cup {JFile("obj", o) : o \in CardObjs}

DefaultCard == Obj2("best_model_name", Text("Unknown"), "test_auc", VNull)

(* ---------------- _load_json ---------------- *)
\* json.load raises on a malformed file; a missing file yields the default.
\* mutant: FileNotFoundError is not caught
_load_json_NoDefault(file, default) ==
    CASE file.st = "absent" -> [raised |-> TRUE, err |-> "FileNotFoundError", isObj |-> FALSE, obj |-> EmptyObj]
      [] file.st = "malformed" -> [raised |-> TRUE, err |-> "JSONDecodeError", isObj |-> FALSE, obj |-> EmptyObj]
      [] file.st = "nonobj" -> [raised |-> FALSE, err |-> "", isObj |-> FALSE, obj |-> EmptyObj]
      [] OTHER -> [raised |-> FALSE, err |-> "", isObj |-> TRUE, obj |-> file.obj]
_load_json(file, default) ==
    CASE file.st = "absent" -> [raised |-> FALSE, err |-> "", isObj |-> TRUE, obj |-> default]
      [] file.st = "malformed" -> [raised |-> TRUE, err |-> "JSONDecodeError", isObj |-> FALSE, obj |-> EmptyObj]
      [] file.st = "nonobj" -> [raised |-> FALSE, err |-> "", isObj |-> FALSE, obj |-> EmptyObj]
      [] OTHER -> [raised |-> FALSE, err |-> "", isObj |-> TRUE, obj |-> file.obj]

\* "a, b = v": v must iterate over exactly two elements.
CanUnpack2(v) == Len(v.a) = 2

\* if "img_size" not in prep_cfg or "scale" not in prep_cfg: raise
HasRequiredKeys(prep) == Has(prep, "img_size") /\ Has(prep, "scale")

NoModel == MFile("unset", 0, 0)
NoConfig == [MODEL |-> NoModel, PREP |-> EmptyObj, CARD |-> EmptyObj]
Loaded(model, prep, card) ==
    [raised |-> FALSE, err |-> "", cfg |-> [MODEL |-> model, PREP |-> prep, CARD |-> card]]
Failed(err) == [raised |-> TRUE, err |-> err, cfg |-> NoConfig]

\* mutant: the model file's existence is not checked
ModelFileExists_Skip(files) == TRUE
ModelFileExists(files) == files.model.st # "absent"
PrepFileExists(files) == files.prep.st # "absent"

load_artifacts(files) ==
    LET prep == _load_json(files.prep, EmptyObj)
        card == _load_json(files.card, DefaultCard)
    IN  IF ~ModelFileExists(files) THEN Failed("FileNotFoundError")
        ELSE IF ~PrepFileExists(files) THEN Failed("FileNotFoundError")
        ELSE IF files.model.st = "corrupt" THEN Failed("LoadModelError")
        ELSE IF prep.raised THEN Failed(prep.err)
        ELSE IF ~prep.isObj THEN Failed("TypeError")
        ELSE IF ~HasRequiredKeys(prep.obj) THEN Failed("ValueError")
        ELSE IF card.raised THEN Failed(card.err)
        ELSE IF ~CanUnpack2(prep.obj["img_size"]) THEN Failed("UnpackError")
        ELSE IF ~card.isObj THEN Failed("AttributeError")
        ELSE Loaded(files.model, prep.obj, card.obj)

(* ---------------- preprocessing and scoring ---------------- *)
\* 0.5 in percent
Half == 50

Decodable(bytes) == Len(bytes) = 2 /\ bytes[1] = 1
\* Image.resize wants a pair of positive integers.
Resizable(width, height) ==
    /\ width.t = "num" /\ height.t = "num"
    /\ width.n > 0 /\ height.n > 0
\* float(scale)
IsNumeric(scale) == scale.t = "num"

NoBatch == [h |-> 0, w |-> 0, val |-> 0]
preprocess_bytes(bytes, width, height, scale) ==
    IF ~Decodable(bytes)
      THEN [raised |-> TRUE, err |-> "UnidentifiedImageError", batch |-> NoBatch]
    ELSE IF ~Resizable(width, height)
      THEN [raised |-> TRUE, err |-> "ResizeError", batch |-> NoBatch]
    ELSE IF ~IsNumeric(scale)
      THEN [raised |-> TRUE, err |-> "FloatError", batch |-> NoBatch]
    ELSE [raised |-> FALSE, err |-> "",
          batch |-> [h |-> height.n, w |-> width.n, val |-> bytes[2] * scale.n]]

Clamp(x) == IF x < 0 THEN 0 ELSE IF x > 100 THEN 100 ELSE x
\* model.predict(batch): the input must have the model's input shape
ModelPredict(model, b) ==
    IF b.h # model.inH \/ b.w # model.inW
      THEN [raised |-> TRUE, err |-> "ShapeError", prob |-> 0]
      ELSE [raised |-> FALSE, err |-> "", prob |-> Clamp(model.gain * b.val)]

\* mutant: the boundary goes to the other label
LabelOf_Strict(prob) == IF prob > Half THEN "damage" ELSE "no_damage"
\* mutant: a third label at the boundary
LabelOf_Uncertain(prob) ==
    IF prob > Half THEN "damage" ELSE IF prob < Half THEN "no_damage" ELSE "uncertain"
LabelOf(prob) == IF prob >= Half THEN "damage" ELSE "no_damage"

\* mutant: the previous request's label is reused
predict_label_from_array_Cached(model, b) ==
    LET out == ModelPredict(model, b)
    IN  IF out.raised THEN [raised |-> TRUE, err |-> out.err, label |-> ""]
        ELSE IF Has(lastResp.body, "prediction")
          THEN [raised |-> FALSE, err |-> "", label |-> lastResp.body["prediction"].s]
        ELSE [raised |-> FALSE, err |-> "", label |-> LabelOf(out.prob)]
predict_label_from_array(model, b) ==
    LET out == ModelPredict(model, b)
    IN  IF out.raised THEN [raised |-> TRUE, err |-> out.err, label |-> ""]
        ELSE [raised |-> FALSE, err |-> "", label |-> LabelOf(out.prob)]

(* ---------------- request handling ---------------- *)
get_request_image_bytes(req) ==
    IF req.image # NoField THEN req.image ELSE req.data

\* mutant: the empty-body check is missing
IsEmpty_Never(bytes) == FALSE
\* "if not raw"
IsEmpty(bytes) == Len(bytes) = 0

Response(route, bytes, status, body) ==
    [route |-> route, raw |-> bytes, status |-> status, body |-> body]
NoResponse == Response("none", <<>>, 0, EmptyObj)
NotSeen == [resp |-> NoResponse, again |-> FALSE]

EmptyBodyResponse(bytes) ==
    Response("/inference", bytes, 400, Obj1("error", Text("Empty request body")))
\* except Exception as exc: return jsonify({"error": str(exc)}), 500
ErrorResponse(bytes, err) ==
    Response("/inference", bytes, 500, Obj1("error", Text(err)))
PredictionResponse(bytes, label) ==
    Response("/inference", bytes, 200, Obj1("prediction", Text(label)))

ImgSize(cfg) == cfg.PREP["img_size"].a

\* mutant: resize is reported as [H, W]
SummaryBody_Swapped(cfg) ==
    LET size == ImgSize(cfg)
        card == cfg.CARD
    IN  [k \in {"model_name", "test_auc", "input_size", "classes",
                "preprocessing.resize", "preprocessing.scale"} |->
           CASE k = "model_name" -> Get(card, "best_model_name", Text("Unknown"))
             [] k = "test_auc" -> Get(card, "test_auc", VNull)
             [] k = "input_size" -> VArr(<<size[1], size[2], SNum(3)>>)
             [] k = "classes" -> VArr(<<SStr("no_damage"), SStr("damage")>>)
             [] k = "preprocessing.resize" -> VArr(<<size[2], size[1]>>)
             [] OTHER -> cfg.PREP["scale"]]

SummaryBody(cfg) ==
    LET size == ImgSize(cfg)
        card == cfg.CARD
    IN  [k \in {"model_name", "test_auc", "input_size", "classes",
                "preprocessing.resize", "preprocessing.scale"} |->
           CASE k = "model_name" -> Get(card, "best_model_name", Text("Unknown"))
             [] k = "test_auc" -> Get(card, "test_auc", VNull)
             [] k = "input_size" -> VArr(<<size[1], size[2], SNum(3)>>)
             [] k = "classes" -> VArr(<<SStr("no_damage"), SStr("damage")>>)
             [] k = "preprocessing.resize" -> VArr(<<size[1], size[2]>>)
             [] OTHER -> cfg.PREP["scale"]]

(* ---------------- state machine ---------------- *)
Init ==
    /\ fs \in [model : ModelFiles, prep : PrepFiles, card : CardFiles]
    /\ phase = "starting"
    /\ startErr = ""
    /\ config = NoConfig
    /\ pc = [w \in Workers |-> "idle"]
    /\ raw = [w \in Workers |-> <<>>]
    /\ lastResp = NoResponse
    /\ seen = NotSeen

\* app = create_app(), run when the module is imported
create_app ==
    /\ phase = "starting"
    /\ LET r == load_artifacts(fs)
       IN  /\ phase' = IF r.raised THEN "aborted" ELSE "serving"
           /\ startErr' = r.err
           /\ config' = r.cfg
    /\ UNCHANGED <<fs, pc, raw, lastResp, seen>>

\* a response leaves the process; "seen" may keep one earlier inference
\* response, and notes when the same bytes are answered again,
\* response for comparison with later ones
Emit(r) ==
    /\ lastResp' = r
    /\ seen' \in IF r.route # "/inference" THEN {seen}
                 ELSE IF seen = NotSeen THEN {seen, [resp |-> r, again |-> FALSE]}
                 ELSE IF r.raw = seen.resp.raw THEN {[seen EXCEPT !.again = TRUE]}
                 ELSE {seen}

health(w) ==
    /\ phase = "serving" /\ pc[w] = "idle"
    /\ Emit(Response("/health", <<>>, 200, Obj1("status", Text("ok"))))
    /\ UNCHANGED <<fs, phase, startErr, config, pc, raw>>

summary(w) ==
    /\ phase = "serving" /\ pc[w] = "idle"
    /\ Emit(Response("/summary", <<>>, 200, SummaryBody(config)))
    /\ UNCHANGED <<fs, phase, startErr, config, pc, raw>>

\* inference(), up to the empty-body check
inference_recv(w) ==
    /\ phase = "serving" /\ pc[w] = "idle"
    /\ \E req \in Requests :
         LET bytes == get_request_image_bytes(req)
         IN  IF IsEmpty(bytes)
               THEN /\ Emit(EmptyBodyResponse(bytes))
                    /\ UNCHANGED <<pc, raw>>
               ELSE /\ pc' = [pc EXCEPT ![w] = "try"]
                    /\ raw' = [raw EXCEPT ![w] = bytes]
                    /\ UNCHANGED <<lastResp, seen>>
    /\ UNCHANGED <<fs, phase, startErr, config>>

\* mutant: only the preprocessing failures are caught, a failing model call
\* leaves the handler and the framework answers a bare 500
TryInference_NarrowCatch(cfg, bytes) ==
    LET size == ImgSize(cfg)
        pre == preprocess_bytes(bytes, size[1], size[2], cfg.PREP["scale"])
        out == predict_label_from_array(cfg.MODEL, pre.batch)
    IN  IF pre.raised THEN ErrorResponse(bytes, pre.err)
        ELSE IF out.raised THEN Response("/inference", bytes, 500, EmptyObj)
        ELSE PredictionResponse(bytes, out.label)

\* try: ... except Exception as exc: ...
TryInference(cfg, bytes) ==
    LET size == ImgSize(cfg)
        pre == preprocess_bytes(bytes, size[1], size[2], cfg.PREP["scale"])
        out == predict_label_from_array(cfg.MODEL, pre.batch)
    IN  IF pre.raised THEN ErrorResponse(bytes, pre.err)
        ELSE IF out.raised THEN ErrorResponse(bytes, out.err)
        ELSE PredictionResponse(bytes, out.label)

\* inference(), the try block and the reply
inference_try(w) ==
    /\ phase = "serving" /\ pc[w] = "try"
    /\ Emit(TryInference(config, raw[w]))
    /\ pc' = [pc EXCEPT ![w] = "idle"]
    /\ raw' = [raw EXCEPT ![w] = <<>>]
    /\ UNCHANGED <<fs, phase, startErr, config>>

Next ==
    \/ create_app
    \/ \E w \in Workers : health(w)
    \/ \E w \in Workers : summary(w)
    \/ \E w \in Workers : inference_recv(w)
    \/ \E w \in Workers : inference_try(w)

Spec == Init /\ [][Next]_vars

(* ---------------- what a request's payload leads to ---------------- *)
Pre(cfg, bytes) ==
    preprocess_bytes(bytes, ImgSize(cfg)[1], ImgSize(cfg)[2], cfg.PREP["scale"])
Out(cfg, bytes) == ModelPredict(cfg.MODEL, Pre(cfg, bytes).batch)
Succeeds(cfg, bytes) == ~Pre(cfg, bytes).raised /\ ~Out(cfg, bytes).raised

Answered == phase = "serving" /\ lastResp.route = "/inference"
AnsweredTry == Answered /\ lastResp.raw # <<>>
AnsweredOk == AnsweredTry /\ Succeeds(config, lastResp.raw)
AnsweredFail == AnsweredTry /\ ~Succeeds(config, lastResp.raw)
Prediction(r) == IF Has(r.body, "prediction") THEN r.body["prediction"].s ELSE ""
EmptyRequest == [image |-> NoField, data |-> <<>>]

(* ---------------- claims ---------------- *)

\* C1 as stated: a successful inference with model output p is answered
\* "no_damage" when p >= 0.5 and "damage" when p < 0.5.
C1_AsStated ==
    AnsweredOk =>
        Prediction(lastResp) =
            IF Out(config, lastResp.raw).prob >= Half THEN "no_damage" ELSE "damage"

\* C1 amended: a successful inference with model output p is answered
\* "damage" when p >= 0.5 (the boundary included) and "no_damage" when p < 0.5.
C1_Label ==
    AnsweredOk =>
        Prediction(lastResp) =
            IF Out(config, lastResp.raw).prob >= Half THEN "damage" ELSE "no_damage"

C1_Witness ==
    /\ AnsweredOk
    /\ Out(config, lastResp.raw).prob = Half
    /\ Prediction(lastResp) = "damage"
    /\ seen.resp.route = "/inference" /\ Prediction(seen.resp) = "no_damage"

\* C2: a request without the multipart field and with an empty raw body is
\* answered 400 {"error": "Empty request body"}, and never enters the try block.
C2_EmptyBody ==
    /\ \A w \in Workers :
         pc[w] = "try" => raw[w] # get_request_image_bytes(EmptyRequest)
    /\ (Answered /\ lastResp.raw = get_request_image_bytes(EmptyRequest)) =>
         /\ lastResp.status = 400
         /\ lastResp.body = Obj1("error", Text("Empty request body"))

C2_Witness ==
    /\ Answered
    /\ lastResp.raw = get_request_image_bytes(EmptyRequest)
    /\ lastResp.status = 400

\* C3: a non-empty payload whose decode, resize or model invocation fails is
\* answered 500 with a body holding exactly an "error" message, and the
\* process keeps serving.
C3_Caught ==
    /\ lastResp # NoResponse => phase = "serving"
    /\ AnsweredFail =>
         /\ lastResp.status = 500
         /\ DOMAIN lastResp.body = {"error"}
         /\ lastResp.body["error"].s # ""

C3_Witness ==
    /\ AnsweredOk /\ lastResp.status = 200
    /\ seen.resp.status = 500
    /\ seen.resp.body = Obj1("error", Text("UnidentifiedImageError"))

\* C4: a payload that decodes, resizes and is scored is answered 200 with a
\* body that is exactly {"prediction": "damage"} or {"prediction": "no_damage"}.
C4_TwoLabels ==
    AnsweredOk =>
        /\ lastResp.status = 200
        /\ lastResp.body \in {Obj1("prediction", Text("damage")),
                              Obj1("prediction", Text("no_damage"))}

C4_Witness ==
    /\ AnsweredOk
    /\ lastResp.body = Obj1("prediction", Text("no_damage"))
    /\ seen.resp.body = Obj1("prediction", Text("damage"))

\* C5: with the model file or the preprocessing config file missing, startup
\* aborts with FileNotFoundError: the process is never serving and answers
\* no request.
C5_MissingArtifact ==
    (fs.model.st = "absent" \/ fs.prep.st = "absent") =>
        /\ phase # "serving"
        /\ lastResp = NoResponse
        /\ phase = "aborted" => startErr = "FileNotFoundError"

C5_Witness ==
    /\ phase = "aborted"
    /\ fs.model.st = "absent" /\ fs.prep.st = "obj"

\* C6 as stated: a preprocessing config without img_size as a two-element
\* array, or without a numeric scale, never reaches the serving state.
WellTyped(obj) ==
    /\ Has(obj, "img_size") /\ obj["img_size"].t = "arr" /\ Len(obj["img_size"].a) = 2
    /\ Has(obj, "scale") /\ obj["scale"].t = "num"
C6_AsStated ==
    (fs.prep.st = "obj" /\ ~WellTyped(fs.prep.obj)) => phase # "serving"

\* C7: with model and preprocessing config accepted and the model card file
\* missing, startup succeeds with the default card, and /summary reports
\* model_name "Unknown" and test_auc null.
Accepted(files) ==
    /\ files.model.st = "ok"
    /\ files.prep.st = "obj"
    /\ HasRequiredKeys(files.prep.obj)
    /\ CanUnpack2(files.prep.obj["img_size"])
C7_CardOptional ==
    (fs.card.st = "absent" /\ Accepted(fs) /\ phase # "starting") =>
        /\ phase = "serving"
        /\ config.CARD = DefaultCard
        /\ lastResp.route = "/summary" =>
             /\ lastResp.body["model_name"] = Text("Unknown")
             /\ lastResp.body["test_auc"] = VNull

C7_Witness ==
    /\ fs.card.st = "absent" /\ phase = "serving"
    /\ lastResp.route = "/summary"

\* C8: once serving, the stored config is the one read at startup, whatever
\* requests were handled, and /summary answers 200 with input_size = [W, H, 3]
\* and preprocessing.resize = [W, H] for the img_size [W, H] of the file.
C8_Summary ==
    phase = "serving" =>
        /\ config.PREP = fs.prep.obj
        /\ lastResp.route = "/summary" =>
             LET size == fs.prep.obj["img_size"].a
             IN  /\ lastResp.status = 200
                 /\ lastResp.body["input_size"] = VArr(<<size[1], size[2], SNum(3)>>)
                 /\ lastResp.body["preprocessing.resize"] = VArr(<<size[1], size[2]>>)

C8_Witness ==
    /\ phase = "serving" /\ lastResp.route = "/summary"
    /\ fs.prep.obj["img_size"] = VArr(<<SNum(0), SNum(2)>>)
    /\ seen.resp.status = 500
    /\ \E w \in Workers : pc[w] = "try"

C10_AsStated ==
    phase = "serving" =>
        LET size == ImgSize(config)
            scale == config.PREP["scale"]
        IN  /\ size[1].t = "num" /\ size[1].n > 0
            /\ size[2].t = "num" /\ size[2].n > 0
            /\ scale.t = "num" /\ scale.n > 0

====
